---- MODULE Spec2Model ----
(***************************************************************************)
(* dissbson: a BSON dump dissector.                                        *)
(*                                                                         *)
(* The program has five stages, each modelled by its own specification     *)
(* over the variables of that stage (the other stages' variables rest):    *)
(*   SpecScan    index_file, the length-prefix scan of the input stream    *)
(*   SpecIndex   the .idx.dat checkpoint written by main and read back by  *)
(*               load_index_data                                           *)
(*   SpecSlice   parse_slice and the slicing of the loaded index in main   *)
(*   SpecBridge  LuaEngine: load_document, load_script, get_document and   *)
(*               the LuaBsonRepr / LuaObjectIdRepr conversions             *)
(*   SpecExport  the two rayon export loops of main                        *)
(*                                                                         *)
(* usize values are written as integers.  A negative integer n stands for  *)
(* the 64-bit pattern 2^64 + n, which TLC cannot write down: the sign      *)
(* extension of `size as usize` and a wrapping subtraction are then plain  *)
(* integer arithmetic read modulo 2^64.                                    *)
(***************************************************************************)
EXTENDS Integers, Sequences, FiniteSets, TLC

VARIABLES
    \* index_file
    pieces,     \* how the input file was put together (the test's knowledge)
    stream,     \* the bytes of the input file
    pos,        \* the reader's stream position
    buf,        \* let mut buf = [0u8; 4]
    offsets,    \* let mut offsets = Vec::new()
    count,      \* let mut count = 0
    scanPc,     \* "loop" | "ok" | "io_err" | "panic"
    \* the index checkpoint
    ixIn,       \* the offsets inspect_bson returned to main
    ixFile,     \* the .idx.dat file: [exists, bytes]
    ixOut,      \* what load_index_data returned
    ixPc,       \* "start" | "saved" | "loaded" | "load_err"
    \* --slice
    slWant,     \* the range the user means: [kind, from, to], -1 for none
    slArg,      \* args.slice: [given, str], str the characters of the string
    slIdx,      \* idx as loaded
    slRange,    \* what parse_slice returned
    slOut,      \* idx after main's lines 132-136
    slPc,       \* "args" | "parsed" | "parse_err" | "sliced" | "panic"
    \* LuaEngine
    inDoc,      \* the Document passed to load_document
    luaDoc,     \* the interpreter's global `doc`
    script,     \* the script text passed to load_script
    outDoc,     \* the Document get_document returned
    brPc,       \* "new" | "loaded" | "ran" | "script_err" | "harvested"
                \* | "harvest_err" | "panic"
    \* the export loops of main
    exArgs,     \* [n, batch, threads, single, bad]: idx.len(), the arguments
                \* and the records that fail to load, decode or transform
    chunk_ct,   \* let chunk_ct = Arc::new(RwLock::new(0))
    pb,         \* the progress bar's position
    taken,      \* the chunks handed to a worker so far
    worker,     \* what each thread of the pool is doing: [st, chunk, nth]
    files,      \* the output directory: (file name, document) pairs
    writer,     \* the elements serialized into the single output file
    exported,   \* how many documents have been written (the test's count)
    exPc        \* "running" | "unwinding" | "done" | "panic"

scanVars == <<pieces, stream, pos, buf, offsets, count, scanPc>>
ixVars == <<ixIn, ixFile, ixOut, ixPc>>
slVars == <<slWant, slArg, slIdx, slRange, slOut, slPc>>
brVars == <<inDoc, luaDoc, script, outDoc, brPc>>
exVars == <<exArgs, chunk_ct, pb, taken, worker, files, writer, exported, exPc>>

vars == <<scanVars, ixVars, slVars, brVars, exVars>>

\* what a stage's actions leave alone: the variables of the other stages
notScan == <<ixVars, slVars, brVars, exVars>>
notIndex == <<scanVars, slVars, brVars, exVars>>
notSlice == <<scanVars, ixVars, brVars, exVars>>
notBridge == <<scanVars, ixVars, slVars, exVars>>
notExport == <<scanVars, ixVars, slVars, brVars>>

Min(a, b) == IF a <= b THEN a ELSE b
Max(a, b) == IF a >= b THEN a ELSE b

RECURSIVE Flatten(_)
Flatten(ss) == IF ss = <<>> THEN <<>> ELSE Head(ss) \o Flatten(Tail(ss))

RECURSIVE SumLen(_, _)
\* the total length of the first k sequences of ss
SumLen(ss, k) == IF k = 0 THEN 0 ELSE SumLen(ss, k - 1) + Len(ss[k])

(***************************************************************************)
(* index_file                                                              *)
(***************************************************************************)

\* The longest input is MaxPieces pieces long; the scan of a stream that
\* sends the reader backwards is cut off after MaxScan records.
MaxPieces == 3
MaxScan == 6

\* What an input file is put together from: whole records (the prefix is the
\* record's length), and prefixes that are too small, negative, cut short or
\* that reach past the end of what follows.
ValidPieces ==
    { <<4, 0, 0, 0>>,
      <<5, 0, 0, 0, 9>>,
      <<6, 0, 0, 0, 3, 0>>,
      <<8, 0, 0, 0, 4, 0, 0, 0>> }

BrokenPieces ==
    { <<3, 0, 0, 0>>,
      <<0, 0, 0, 0>>,
      <<8, 0, 0, 0>>,
      <<4, 0>>,
      <<4>>,
      <<252, 255, 255, 255>>,
      <<255, 255, 255, 255>> }

Pieces == ValidPieces \cup BrokenPieces

PieceSeqs == UNION { [1..n -> Pieces] : n \in 0..MaxPieces }

\* read_pattern(&buf[..], "@W")?[0].try_into()?: the four bytes as a little
\* endian signed 32 bit integer
LeI32(b) ==
    b[1] + 256 * b[2] + 65536 * b[3]
    + 16777216 * (IF b[4] >= 128 THEN b[4] - 256 ELSE b[4])

\* reader.read(&mut buf): BufReader's buffer is empty at every read (a seek
\* discards it), so a read is short only at the end of the file
ReadCount(s, p) == Min(4, Max(0, Len(s) - p))

ReadInto(b, s, p) ==
    [i \in 1..4 |-> IF i <= ReadCount(s, p) THEN s[p + i] ELSE b[i]]

\* offset: reader.stream_position()? as usize - 4
RecordOffsetNoPrefix(position) == position
RecordOffset(position) == position - 4

\* reader.seek(SeekFrom::Current((size - 4) as i64))
SeekTarget(position, size) == position + (size - 4)

ScanStart ==
    /\ pieces \in PieceSeqs
    /\ stream = Flatten(pieces)
    /\ pos = 0
    /\ buf = <<0, 0, 0, 0>>
    /\ offsets = <<>>
    /\ count = 0
    /\ scanPc = "loop"

\* n == 0: break, reader.rewind()?, Ok((offsets, count))
ScanEof ==
    /\ scanPc = "loop"
    /\ ReadCount(stream, pos) = 0
    /\ pos' = 0
    /\ scanPc' = "ok"
    /\ UNCHANGED <<pieces, stream, buf, offsets, count, notScan>>

\* one turn of the loop that reads a prefix, pushes its record and seeks on
ScanRecord ==
    /\ scanPc = "loop"
    /\ ReadCount(stream, pos) > 0
    /\ Len(offsets) < MaxScan
    /\ LET position == pos + ReadCount(stream, pos)
           nbuf == ReadInto(buf, stream, pos)
           size == LeI32(nbuf)
       IN  /\ SeekTarget(position, size) >= 0
           /\ buf' = nbuf
           /\ count' = count + 1
           /\ offsets' = Append(offsets,
                  [offset |-> RecordOffset(position), size |-> size])
           /\ pos' = SeekTarget(position, size)
    /\ UNCHANGED <<pieces, stream, scanPc, notScan>>

\* the seek would land before the start of the file: seek fails, `?` returns
\* DissectError::Io and the records pushed so far are dropped with the Vec
ScanSeekError ==
    /\ scanPc = "loop"
    /\ ReadCount(stream, pos) > 0
    /\ Len(offsets) < MaxScan
    /\ LET position == pos + ReadCount(stream, pos)
           nbuf == ReadInto(buf, stream, pos)
           size == LeI32(nbuf)
       IN  /\ SeekTarget(position, size) < 0
           /\ buf' = nbuf
           /\ count' = count + 1
           /\ offsets' = <<>>
           /\ pos' = position
    /\ scanPc' = "io_err"
    /\ UNCHANGED <<pieces, stream, notScan>>

\* a short read leaves the position below 4: `position as usize - 4`
\* overflows, which a build with overflow checks turns into a panic (a build
\* without them wraps, which is ScanRecord's negative offset)
ScanOverflowPanic ==
    /\ scanPc = "loop"
    /\ ReadCount(stream, pos) > 0
    /\ Len(offsets) < MaxScan
    /\ pos + ReadCount(stream, pos) < 4
    /\ buf' = ReadInto(buf, stream, pos)
    /\ count' = count + 1
    /\ pos' = pos + ReadCount(stream, pos)
    /\ offsets' = <<>>
    /\ scanPc' = "panic"
    /\ UNCHANGED <<pieces, stream, notScan>>

\* the stage at rest, in the specifications of the other stages
ScanIdle ==
    /\ pieces = <<>>
    /\ stream = <<>>
    /\ pos = 0
    /\ buf = <<0, 0, 0, 0>>
    /\ offsets = <<>>
    /\ count = 0
    /\ scanPc = "ok"

(***************************************************************************)
(* Properties of index_file                                                *)
(***************************************************************************)

\* a whole record: at least a prefix, and the prefix is the record's length
IsRecord(p) == Len(p) >= 4 /\ LeI32(SubSeq(p, 1, 4)) = Len(p)

WellFormed(ps) == \A i \in 1..Len(ps) : IsRecord(ps[i])

\* C3: a stream of N whole records is indexed as exactly those N records:
\* record k starts where records 1..k-1 end and has its prefix as size, the
\* offsets increase strictly, the records cover the stream to its end, the
\* scan does not fail, and the stream is back at position 0 on return.
C3_ScanCoversWellFormedStream ==
    WellFormed(pieces) =>
        /\ scanPc \in {"loop", "ok"}
        /\ Len(offsets) <= Len(pieces)
        /\ \A k \in 1..Len(offsets) :
              /\ offsets[k].offset = SumLen(pieces, k - 1)
              /\ offsets[k].size = Len(pieces[k])
              /\ offsets[k].size = LeI32(SubSeq(pieces[k], 1, 4))
        /\ \A k \in 2..Len(offsets) :
              /\ offsets[k - 1].offset < offsets[k].offset
              /\ offsets[k].offset = offsets[k - 1].offset + offsets[k - 1].size
        /\ scanPc = "ok" =>
              /\ Len(offsets) = Len(pieces)
              /\ count = Len(pieces)
              /\ pos = 0
              /\ SumLen(pieces, Len(pieces)) = Len(stream)

C3_Witness ==
    /\ scanPc = "ok"
    /\ WellFormed(pieces)
    /\ Len(pieces) = 3
    /\ Len(offsets) = 3
    /\ Len(pieces[1]) /= Len(pieces[2])
    /\ offsets[3].offset = Len(pieces[1]) + Len(pieces[2])

\* C4: once a prefix below 4 has been read, the scan has failed: it has not
\* pushed a record for the prefix and gone on (or returned) with it.
C4_SmallPrefixFailsScan ==
    (count > 0 /\ LeI32(buf) < 4) => scanPc = "io_err"

\* C5: an index that index_file returns holds no record that reaches past the
\* end of the stream.
C5_NoReturnedRecordPastEof ==
    scanPc = "ok" =>
        \A k \in 1..Len(offsets) :
            offsets[k].offset + offsets[k].size <= Len(stream)

(***************************************************************************)
(* The index checkpoint: main writes it, load_index_data reads it          *)
(***************************************************************************)

\* The longest index checkpointed, and the offsets and sizes its records are
\* drawn from (IxValues: both sides of the one, two and three byte varints).
MaxIdxLen == 2

IxValues == {0, 127, 128, 16384}

IxRecords == [offset : IxValues, size : IxValues]

IxSeqs == UNION { [1..n -> IxRecords] : n \in 0..MaxIdxLen }

\* postcard's varint of a usize: seven bits a byte, low bits first, the top
\* bit set on every byte but the last
RECURSIVE VarintEncode(_)
VarintEncodeLowBits(n) == <<n % 128>>
VarintEncode(n) ==
    IF n < 128 THEN <<n>>
    ELSE <<128 + (n % 128)>> \o VarintEncode(n \div 128)

\* the varint that starts at bs[i]: [ok, val, next]
RECURSIVE VarintDecode(_, _)
VarintDecode(bs, i) ==
    IF i > Len(bs) THEN [ok |-> FALSE, val |-> 0, next |-> i]
    ELSE IF bs[i] < 128 THEN [ok |-> TRUE, val |-> bs[i], next |-> i + 1]
    ELSE LET r == VarintDecode(bs, i + 1)
         IN  [ok |-> r.ok, val |-> (bs[i] - 128) + 128 * r.val, next |-> r.next]

\* #[derive(Serialize)] struct DocOffset { offset, size }: the fields in order
SerializeDocOffset(r) == VarintEncode(r.offset) \o VarintEncode(r.size)

RECURSIVE SerializeElements(_)
SerializeElements(rs) ==
    IF rs = <<>> THEN <<>>
    ELSE SerializeDocOffset(Head(rs)) \o SerializeElements(Tail(rs))

\* postcard's Vec<DocOffset>: the length as a varint, then the elements
PostcardSerialize(rs) == VarintEncode(Len(rs)) \o SerializeElements(rs)

\* n elements from bs[i] on: [ok, val]
RECURSIVE DeserializeElements(_, _, _)
DeserializeElements(bs, i, n) ==
    IF n = 0 THEN [ok |-> TRUE, val |-> <<>>]
    ELSE LET o == VarintDecode(bs, i)
             z == VarintDecode(bs, o.next)
             rest == DeserializeElements(bs, z.next, n - 1)
         IN  IF ~o.ok \/ ~z.ok \/ ~rest.ok THEN [ok |-> FALSE, val |-> <<>>]
             ELSE [ok |-> TRUE,
                   val |-> <<[offset |-> o.val, size |-> z.val]>> \o rest.val]

PostcardDeserialize(bs) ==
    LET n == VarintDecode(bs, 1)
    IN  IF ~n.ok THEN [ok |-> FALSE, val |-> <<>>]
        ELSE DeserializeElements(bs, n.next, n.val)

\* the first zero among the first 254 bytes of bs, or 0
FirstZero(bs) ==
    LET zs == { i \in 1..Min(Len(bs), 254) : bs[i] = 0 }
    IN  IF zs = {} THEN 0 ELSE CHOOSE i \in zs : \A j \in zs : i <= j

\* COBS: each block is a count byte and the bytes up to the next zero
RECURSIVE CobsBlocks(_)
CobsBlocks(bs) ==
    LET z == FirstZero(bs)
    IN  IF z > 0
        THEN <<z>> \o SubSeq(bs, 1, z - 1) \o CobsBlocks(SubSeq(bs, z + 1, Len(bs)))
        ELSE IF Len(bs) >= 254
        THEN <<255>> \o SubSeq(bs, 1, 254) \o CobsBlocks(SubSeq(bs, 255, Len(bs)))
        ELSE <<Len(bs) + 1>> \o bs

\* to_allocvec_cobs: the COBS blocks and the zero that ends the frame
CobsEncode(bs) == CobsBlocks(bs) \o <<0>>

\* the blocks from bs[i] up to the frame's zero: [ok, val]
RECURSIVE CobsDecodeFrom(_, _)
CobsDecodeFrom(bs, i) ==
    IF i > Len(bs) THEN [ok |-> FALSE, val |-> <<>>]
    ELSE IF bs[i] = 0 THEN [ok |-> TRUE, val |-> <<>>]
    ELSE LET code == bs[i]
             last == i + code - 1
         IN  IF last > Len(bs) \/ \E j \in (i + 1)..last : bs[j] = 0
             THEN [ok |-> FALSE, val |-> <<>>]
             ELSE LET rest == CobsDecodeFrom(bs, last + 1)
                      ends == last + 1 <= Len(bs) /\ bs[last + 1] = 0
                      gap == IF code < 255 /\ ~ends THEN <<0>> ELSE <<>>
                  IN  [ok |-> rest.ok,
                       val |-> SubSeq(bs, i + 1, last) \o gap \o rest.val]

CobsDecode(bs) == CobsDecodeFrom(bs, 1)

\* Adler-32 of RFC 1950, as its two 16 bit halves
AdlerModulus == 65521

RECURSIVE AdlerSums(_, _, _)
AdlerSums(bs, a, b) ==
    IF bs = <<>> THEN <<a, b>>
    ELSE AdlerSums(Tail(bs), (a + Head(bs)) % AdlerModulus,
                   (b + a + Head(bs)) % AdlerModulus)

Adler32(bs) ==
    LET ab == AdlerSums(bs, 1, 0)
    IN  <<ab[2] \div 256, ab[2] % 256, ab[1] \div 256, ab[1] % 256>>

\* ZlibEncoder::new(file, Compression::default()), write_all, finish.  The
\* zlib stream is the two header bytes, the deflate body and the Adler-32 of
\* the plain bytes; the body is written here as one stored block (final,
\* LEN, its complement, the bytes), which inflates to the same bytes as the
\* compressed blocks of any level.
ZlibCompress(bs) ==
    <<120, 156>>
    \o <<1, Len(bs) % 256, Len(bs) \div 256,
         255 - (Len(bs) % 256), 255 - (Len(bs) \div 256)>>
    \o bs
    \o Adler32(bs)

\* ZlibDecoder::new(&mut dat), write_all of every chunk read, finish: [ok, val]
ZlibDecompress(zs) ==
    IF Len(zs) < 11 THEN [ok |-> FALSE, val |-> <<>>]
    ELSE LET n == zs[4] + 256 * zs[5]
             body == SubSeq(zs, 8, 7 + n)
         IN  IF \/ zs[1] /= 120
                \/ (zs[1] * 256 + zs[2]) % 31 /= 0
                \/ zs[3] /= 1
                \/ zs[6] /= 255 - zs[4]
                \/ zs[7] /= 255 - zs[5]
                \/ Len(zs) /= 11 + n
                \/ SubSeq(zs, 8 + n, 11 + n) /= Adler32(body)
             THEN [ok |-> FALSE, val |-> <<>>]
             ELSE [ok |-> TRUE, val |-> body]

\* main, lines 123-129: what a run that inspects leaves in the .idx.dat file
IndexFileBytes(rs) == ZlibCompress(CobsEncode(PostcardSerialize(rs)))

\* load_index_data: [ok, val]
load_index_data(bytes) ==
    LET dat == ZlibDecompress(bytes)
        cobs == CobsDecode(dat.val)
    IN  IF ~dat.ok \/ ~cobs.ok THEN [ok |-> FALSE, val |-> <<>>]
        ELSE PostcardDeserialize(cobs.val)

IndexStart ==
    /\ ixIn \in IxSeqs
    /\ ixFile = [exists |-> FALSE, bytes |-> <<>>]
    /\ ixOut = <<>>
    /\ ixPc = "start"

IndexIdle ==
    /\ ixIn = <<>>
    /\ ixFile = [exists |-> FALSE, bytes |-> <<>>]
    /\ ixOut = <<>>
    /\ ixPc = "start"

\* a run that finds no index file, or is told to inspect: File::create
\* truncates the file and the encoder writes the new index into it
SaveIndex ==
    /\ \E inspect \in BOOLEAN : ~ixFile.exists \/ inspect
    /\ ixFile' = [exists |-> TRUE, bytes |-> IndexFileBytes(ixIn)]
    /\ ixPc' = "saved"
    /\ UNCHANGED <<ixIn, ixOut, notIndex>>

\* a later run that finds the index file and is not told to inspect
LoadIndex ==
    /\ ixFile.exists
    /\ LET r == load_index_data(ixFile.bytes)
       IN  /\ ixOut' = r.val
           /\ ixPc' = IF r.ok THEN "loaded" ELSE "load_err"
    /\ UNCHANGED <<ixIn, ixFile, notIndex>>

(***************************************************************************)
(* Properties of the index checkpoint                                      *)
(***************************************************************************)

\* C6: what load_index_data returns from the file a run wrote is the index
\* that run wrote: the load does not fail, and the records are the same
\* (offset, size) pairs, as many and in the same order.
C6_IndexRoundTrips ==
    /\ ixPc /= "load_err"
    /\ ixPc = "loaded" =>
          /\ Len(ixOut) = Len(ixIn)
          /\ \A k \in 1..Len(ixIn) :
                /\ ixOut[k].offset = ixIn[k].offset
                /\ ixOut[k].size = ixIn[k].size

C6_Witness ==
    /\ ixPc = "loaded"
    /\ Len(ixIn) = 2
    /\ ixIn[1].offset = 0
    /\ ixIn[2].size = 16384
    /\ ixOut = ixIn

C6_WitnessEmpty ==
    /\ ixPc = "loaded"
    /\ ixIn = <<>>
    /\ ixOut = <<>>


(***************************************************************************)
(* --slice: parse_slice and main's idx[parse_slice(&slice)?]               *)
(***************************************************************************)

\* The longest index sliced and the largest number written in a slice
MaxSliceLen == 11
MaxSliceArg == 12

\* !0, the usize with every bit set
UsizeMax == -1

\* a > b between two usize values
UsizeGt(a, b) ==
    IF (a < 0) = (b < 0) THEN a > b ELSE a < 0

DigitChars == <<"0", "1", "2", "3", "4", "5", "6", "7", "8", "9">>

IsDigit(c) == \E d \in 1..10 : DigitChars[d] = c

DigitValue(c) == (CHOOSE d \in 1..10 : DigitChars[d] = c) - 1

\* the decimal numeral of n, as the user types it
RECURSIVE Numeral(_)
Numeral(n) ==
    IF n < 10 THEN <<DigitChars[n + 1]>>
    ELSE Numeral(n \div 10) \o <<DigitChars[(n % 10) + 1]>>

NumeralOrNothing(n) == IF n < 0 THEN <<>> ELSE Numeral(n)

\* the string the user passes for the range from..to
SliceString(kind, from, to) ==
    LET range == NumeralOrNothing(from) \o <<".", ".">> \o NumeralOrNothing(to)
    IN  CASE kind = "plain" -> range
          [] kind = "brackets" -> <<"[">> \o range \o <<"]">>
          [] kind = "spaces" -> <<" ">> \o range \o <<" ">>
          [] kind = "nodots" -> NumeralOrNothing(from) \o NumeralOrNothing(to)

\* str::trim_matches(set): the characters of the set taken off both ends
RECURSIVE TrimMatches(_, _)
TrimMatches(str, set) ==
    IF str = <<>> THEN str
    ELSE IF Head(str) \in set THEN TrimMatches(Tail(str), set)
    ELSE IF str[Len(str)] \in set THEN TrimMatches(SubSeq(str, 1, Len(str) - 1), set)
    ELSE str

\* str::split(".."): the pieces between the matches, taken left to right
RECURSIVE SplitDots(_)
SplitDots(str) ==
    LET at == { i \in 1..(Len(str) - 1) : str[i] = "." /\ str[i + 1] = "." }
    IN  IF at = {} THEN <<str>>
        ELSE LET i == CHOOSE j \in at : \A k \in at : j <= k
             IN  <<SubSeq(str, 1, i - 1)>> \o SplitDots(SubSeq(str, i + 2, Len(str)))

RECURSIVE DigitsValue(_)
DigitsValue(str) ==
    IF str = <<>> THEN 0
    ELSE 10 * DigitsValue(SubSeq(str, 1, Len(str) - 1)) + DigitValue(str[Len(str)])

\* part.parse::<usize>().unwrap_or(default)
ParseOr(part, default) ==
    IF part /= <<>> /\ \A i \in 1..Len(part) : IsDigit(part[i])
    THEN DigitsValue(part)
    ELSE default

\* lines 280-288: the pair of bounds for start and end
BoundsInclusiveEnd(start, end) ==
    [lo |-> [kind |-> "Included", at |-> start],
     hi |-> [kind |-> "Included", at |-> end]]
Bounds(start, end) ==
    IF start /= 0 /\ end /= UsizeMax
    THEN [lo |-> [kind |-> "Included", at |-> start],
          hi |-> [kind |-> "Excluded", at |-> end]]
    ELSE IF start /= 0
    THEN [lo |-> [kind |-> "Included", at |-> start],
          hi |-> [kind |-> "Unbounded", at |-> 0]]
    ELSE IF end /= UsizeMax
    THEN [lo |-> [kind |-> "Unbounded", at |-> 0],
          hi |-> [kind |-> "Excluded", at |-> end]]
    ELSE [lo |-> [kind |-> "Unbounded", at |-> 0],
          hi |-> [kind |-> "Unbounded", at |-> 0]]

\* parse_slice: [ok, range]
parse_slice(slice) ==
    LET parts == SplitDots(TrimMatches(TrimMatches(slice, {" "}), {"[", "]"}))
        none == [lo |-> [kind |-> "Unbounded", at |-> 0],
                 hi |-> [kind |-> "Unbounded", at |-> 0]]
    IN  IF Len(parts) /= 2 THEN [ok |-> FALSE, range |-> none]
        ELSE LET start == ParseOr(parts[1], 0)
                 end == ParseOr(parts[2], UsizeMax)
             IN  IF UsizeGt(start, end) THEN [ok |-> FALSE, range |-> none]
                 ELSE [ok |-> TRUE, range |-> Bounds(start, end)]

\* idx[(Bound, Bound)]: where the slice starts and ends (core::slice::index)
RangeStart(range) ==
    CASE range.lo.kind = "Included" -> range.lo.at
      [] range.lo.kind = "Excluded" -> range.lo.at + 1
      [] range.lo.kind = "Unbounded" -> 0

RangeEnd(range, len) ==
    CASE range.hi.kind = "Included" -> range.hi.at + 1
      [] range.hi.kind = "Excluded" -> range.hi.at
      [] range.hi.kind = "Unbounded" -> len

\* the index of n records: record k is the k-th document of the file
IndexOf(n) == [k \in 1..n |-> [offset |-> 4 * (k - 1), size |-> 4]]

NoRange ==
    [lo |-> [kind |-> "Unbounded", at |-> 0],
     hi |-> [kind |-> "Unbounded", at |-> 0]]

SliceStart ==
    /\ slWant \in [kind : {"absent", "plain", "brackets", "spaces", "nodots"},
                   from : -1..MaxSliceArg, to : -1..MaxSliceArg]
    /\ slWant.kind = "absent" => slWant.from = -1 /\ slWant.to = -1
    /\ slArg = IF slWant.kind = "absent" THEN [given |-> FALSE, str |-> <<>>]
               ELSE [given |-> TRUE,
                     str |-> SliceString(slWant.kind, slWant.from, slWant.to)]
    /\ slIdx \in { IndexOf(n) : n \in 0..MaxSliceLen }
    /\ slRange = NoRange
    /\ slOut = <<>>
    /\ slPc = "args"

SliceIdle ==
    /\ slWant = [kind |-> "absent", from |-> -1, to |-> -1]
    /\ slArg = [given |-> FALSE, str |-> <<>>]
    /\ slIdx = <<>>
    /\ slRange = NoRange
    /\ slOut = <<>>
    /\ slPc = "sliced"

\* args.slice is None: idx stays as loaded
NoSlice ==
    /\ slPc = "args"
    /\ ~slArg.given
    /\ slOut' = slIdx
    /\ slPc' = "sliced"
    /\ UNCHANGED <<slWant, slArg, slIdx, slRange, notSlice>>

\* parse_slice(&slice)?
ParseSlice ==
    /\ slPc = "args"
    /\ slArg.given
    /\ LET r == parse_slice(slArg.str)
       IN  /\ slRange' = r.range
           /\ slPc' = IF r.ok THEN "parsed" ELSE "parse_err"
    /\ UNCHANGED <<slWant, slArg, slIdx, slOut, notSlice>>

\* idx[range].to_vec()
ApplySlice ==
    /\ slPc = "parsed"
    /\ RangeStart(slRange) <= RangeEnd(slRange, Len(slIdx))
    /\ RangeEnd(slRange, Len(slIdx)) <= Len(slIdx)
    /\ slOut' = SubSeq(slIdx, RangeStart(slRange) + 1, RangeEnd(slRange, Len(slIdx)))
    /\ slPc' = "sliced"
    /\ UNCHANGED <<slWant, slArg, slIdx, slRange, notSlice>>

\* the range does not lie in the index: the slice index panics
SlicePanic ==
    /\ slPc = "parsed"
    /\ ~(/\ RangeStart(slRange) <= RangeEnd(slRange, Len(slIdx))
         /\ RangeEnd(slRange, Len(slIdx)) <= Len(slIdx))
    /\ slPc' = "panic"
    /\ UNCHANGED <<slWant, slArg, slIdx, slRange, slOut, notSlice>>

(***************************************************************************)
(* Properties of --slice                                                   *)
(***************************************************************************)

\* the range a..b, a.. or ..b that the user means, over an index of len
WantedFrom == IF slWant.from < 0 THEN 0 ELSE slWant.from
WantedTo == IF slWant.to < 0 THEN Len(slIdx) ELSE slWant.to

IsRangeForm == slWant.kind \in {"plain", "brackets", "spaces"}

\* C9: a range a..b, a.. or ..b that lies in the index is parsed and applied
\* (no error, no panic), and the export is restricted to exactly the records
\* at positions a (default 0) up to but excluding b (default the length), in
\* their original order.
C9_SliceIsPositionalRange ==
    IsRangeForm =>
        /\ (WantedFrom <= WantedTo /\ WantedTo <= Len(slIdx)) =>
              slPc \in {"args", "parsed", "sliced"}
        /\ slPc = "sliced" =>
              /\ Len(slOut) = WantedTo - WantedFrom
              /\ \A k \in 1..Len(slOut) : slOut[k] = slIdx[WantedFrom + k]

\* the second half of an index: "5.." over ten records
C9_Witness ==
    /\ slPc = "sliced"
    /\ slArg.str = <<"5", ".", ".">>
    /\ Len(slIdx) = 10
    /\ slOut = SubSeq(slIdx, 6, 10)

C9_WitnessClosed ==
    /\ slPc = "sliced"
    /\ slArg.str = <<"[", "2", ".", ".", "1", "1", "]">>
    /\ Len(slIdx) = 11
    /\ Len(slOut) = 9


(***************************************************************************)
(* LuaEngine: the Bson <-> Lua conversions and the three calls that        *)
(* apply_script makes for a document                                       *)
(***************************************************************************)

\* A Bson value is [t, v]: its variant and its payload.  A Document's payload
\* is a function from its keys to Bson values (Document's equality does not
\* look at the order of the keys, and the HashMaps the conversions collect
\* into do not keep it).  A Double's payload is the text of the number.
BString(x) == [t |-> "String", v |-> x]
BBoolean(x) == [t |-> "Boolean", v |-> x]
BInt32(x) == [t |-> "Int32", v |-> x]
BInt64(x) == [t |-> "Int64", v |-> x]
BDouble(x) == [t |-> "Double", v |-> x]
BObjectId(x) == [t |-> "ObjectId", v |-> x]
BDocument(x) == [t |-> "Document", v |-> x]
BArray(x) == [t |-> "Array", v |-> x]
BBinary(x) == [t |-> "Binary", v |-> x]
BDateTime(x) == [t |-> "DateTime", v |-> x]
BNull == [t |-> "Null", v |-> 0]

\* A Lua value is [t, v].  A table's payload is [ints, strs]: the values
\* under its integer keys and under its string keys.
LString(x) == [t |-> "string", v |-> x]
LBoolean(x) == [t |-> "boolean", v |-> x]
LInteger(x) == [t |-> "integer", v |-> x]
LNumber(x) == [t |-> "number", v |-> x]
LTable(ints, strs) == [t |-> "table", v |-> [ints |-> ints, strs |-> strs]]
LNil == [t |-> "nil", v |-> 0]

\* table.get(key) for a string key
TableGet(tbl, key) ==
    IF key \in DOMAIN tbl.v.strs THEN tbl.v.strs[key] ELSE LNil

\* table.set(key, value) for a string key: a nil value leaves no entry
TableSet(tbl, key, val) ==
    LET old == tbl.v.strs
        keys == IF val = LNil THEN DOMAIN old \ {key} ELSE DOMAIN old \cup {key}
    IN  LTable(tbl.v.ints, [k \in keys |-> IF k = key THEN val ELSE old[k]])

HexDigits ==
    <<"0", "1", "2", "3", "4", "5", "6", "7",
      "8", "9", "a", "b", "c", "d", "e", "f">>

\* ObjectId::to_string: two hex digits a byte
RECURSIVE Hex(_)
Hex(bytes) ==
    IF bytes = <<>> THEN ""
    ELSE HexDigits[(Head(bytes) \div 16) + 1] \o HexDigits[(Head(bytes) % 16) + 1]
         \o Hex(Tail(bytes))

\* Vec<u8>::to_lua and [u8; 12]::to_lua: the bytes under the keys 1..n
BytesToLua(bytes) == LTable([i \in 1..Len(bytes) |-> LInteger(bytes[i])], <<>>)

\* LuaObjectIdRepr::to_lua
LuaObjectIdRepr_to_lua(oid) ==
    LET obj == LTable(<<>>, <<>>)
        typed == TableSet(obj, "__type", LString("ObjectId"))
        valued == TableSet(typed, "__value", BytesToLua(oid))
    IN  TableSet(valued, "string_repr", LString(Hex(oid)))

\* LuaBsonRepr::to_lua
RECURSIVE LuaBsonRepr_to_lua(_)
LuaBsonRepr_to_lua(b) ==
    CASE b.t = "String" -> LString(b.v)
      [] b.t = "Boolean" -> LBoolean(b.v)
      [] b.t = "JavaScriptCode" -> LString(b.v)
      [] b.t = "Int32" -> LInteger(b.v)
      [] b.t = "Int64" -> LInteger(b.v)
      [] b.t = "Binary" -> BytesToLua(b.v)
      [] b.t = "DateTime" -> LInteger(b.v)
      [] b.t = "ObjectId" -> LuaObjectIdRepr_to_lua(b.v)
      [] b.t = "Symbol" -> LString(b.v)
      [] b.t = "Document" ->
            LET keys == { k \in DOMAIN b.v : LuaBsonRepr_to_lua(b.v[k]) /= LNil }
            IN  LTable(<<>>, [k \in keys |-> LuaBsonRepr_to_lua(b.v[k])])
      [] b.t = "Array" ->
            LET at == { i \in 1..Len(b.v) : LuaBsonRepr_to_lua(b.v[i]) /= LNil }
            IN  LTable([i \in at |-> LuaBsonRepr_to_lua(b.v[i])], <<>>)
      [] b.t = "RegularExpression" ->
            LString("Regex { pattern: \"" \o b.v.pattern
                    \o "\", options: \"" \o b.v.options \o "\" }")
      [] b.t = "Double" -> LNumber(b.v)
      [] b.t = "Decimal128" -> LString("Decimal128(" \o b.v \o ")")
      [] b.t = "Timestamp" ->
            LString("Timestamp { time: " \o ToString(b.v.time)
                    \o ", increment: " \o ToString(b.v.increment) \o " }")
      [] b.t = "MaxKey" -> LString("MaxKey")
      [] b.t = "MinKey" -> LString("MinKey")
      [] OTHER -> LNil

\* String::from_lua: a string, or a number as its text: [ok, val]
StringFromLua(x) ==
    CASE x.t = "string" -> [ok |-> TRUE, val |-> x.v]
      [] x.t = "integer" -> [ok |-> TRUE, val |-> ToString(x.v)]
      [] x.t = "number" -> [ok |-> TRUE, val |-> x.v]
      [] OTHER -> [ok |-> FALSE, val |-> ""]

\* Vec<u8>::from_lua: the values under 1, 2, ... up to the first nil, each an
\* integer that fits a byte: [ok, val]
BytesFromLua(x) ==
    IF x.t /= "table" THEN [ok |-> FALSE, val |-> <<>>]
    ELSE LET ints == x.v.ints
             n == Cardinality({ i \in DOMAIN ints : \A j \in 1..i : j \in DOMAIN ints })
         IN  IF \A i \in 1..n : ints[i].t = "integer" /\ ints[i].v \in 0..255
             THEN [ok |-> TRUE, val |-> [i \in 1..n |-> ints[i].v]]
             ELSE [ok |-> FALSE, val |-> <<>>]

\* LuaObjectIdRepr::from_lua: [ok, val]
LuaObjectIdRepr_from_lua(x) ==
    IF x.t /= "table" THEN [ok |-> FALSE, val |-> <<>>]
    ELSE LET obj_type == StringFromLua(TableGet(x, "__type"))
             obj_value == BytesFromLua(TableGet(x, "__value"))
         IN  IF ~obj_type.ok \/ obj_type.val /= "ObjectId" THEN [ok |-> FALSE, val |-> <<>>]
             ELSE IF ~obj_value.ok \/ Len(obj_value.val) /= 12
             THEN [ok |-> FALSE, val |-> <<>>]
             ELSE [ok |-> TRUE, val |-> obj_value.val]

\* the first test of LuaBsonRepr::from_lua: a table whose "__type" reads as
\* the string "ObjectId"
IsTaggedObjectId(x) ==
    /\ x.t = "table"
    /\ StringFromLua(TableGet(x, "__type")).ok
    /\ StringFromLua(TableGet(x, "__type")).val = "ObjectId"

\* the keys of the Document a table is read back as
TableKeys(tbl) == { ToString(i) : i \in DOMAIN tbl.v.ints } \cup DOMAIN tbl.v.strs

TableAt(tbl, key) ==
    IF key \in DOMAIN tbl.v.strs THEN tbl.v.strs[key]
    ELSE tbl.v.ints[CHOOSE i \in DOMAIN tbl.v.ints : ToString(i) = key]

\* LuaBsonRepr::from_lua: [ok, val]
RECURSIVE LuaBsonRepr_from_lua(_)
LuaBsonRepr_from_lua(x) ==
    IF IsTaggedObjectId(x)
    THEN LET oid == LuaObjectIdRepr_from_lua(x)
         IN  [ok |-> oid.ok, val |-> BObjectId(oid.val)]
    ELSE CASE x.t = "string" -> [ok |-> TRUE, val |-> BString(x.v)]
           [] x.t = "boolean" -> [ok |-> TRUE, val |-> BBoolean(x.v)]
           [] x.t = "integer" -> [ok |-> TRUE, val |-> BInt64(x.v)]
           [] x.t = "number" -> [ok |-> TRUE, val |-> BDouble(x.v)]
           [] x.t = "table" ->
                 [ok |-> \A k \in TableKeys(x) : LuaBsonRepr_from_lua(TableAt(x, k)).ok,
                  val |-> BDocument([k \in TableKeys(x) |->
                                       LuaBsonRepr_from_lua(TableAt(x, k)).val])]
           [] OTHER -> [ok |-> TRUE, val |-> BNull]

\* LuaEngine::load_document: the table that becomes the global `doc`
load_document(val) ==
    LET keys == { k \in DOMAIN val : LuaBsonRepr_to_lua(val[k]) /= LNil }
    IN  LTable(<<>>, [k \in keys |-> LuaBsonRepr_to_lua(val[k])])

\* The documents put through the bridge.  Arrays are up to MaxArrayLen long.
MaxArrayLen == 2

Oid1 == <<1, 2, 3, 4, 5, 6, 7, 8, 9, 10, 11, 12>>
Oid2 == <<0, 255, 16, 32, 48, 64, 80, 96, 112, 128, 171, 205>>
Oid3 == <<101, 102, 103, 104, 105, 106, 107, 108, 109, 110, 111, 112>>

Scalars ==
    { BString("x"), BString("ObjectId"), BBoolean(TRUE), BInt32(7), BInt64(7),
      BDouble("1.5"), BObjectId(Oid1), BObjectId(Oid2), BNull,
      BDateTime(1000), BBinary(Oid1), BBinary(<<>>),
      [t |-> "Symbol", v |-> "s"], [t |-> "JavaScriptCode", v |-> "f()"],
      [t |-> "RegularExpression", v |-> [pattern |-> "a", options |-> "i"]],
      [t |-> "Decimal128", v |-> "1.5"],
      [t |-> "Timestamp", v |-> [time |-> 1, increment |-> 2]],
      [t |-> "MaxKey", v |-> 0], [t |-> "MinKey", v |-> 0],
      [t |-> "Undefined", v |-> 0] }

ArrayElements == { BInt32(7), BNull, BObjectId(Oid1) }

Arrays == { BArray(a) : a \in UNION { [1..n -> ArrayElements] : n \in 0..MaxArrayLen } }

Key1(k, x) == [j \in {k} |-> x]
Key2(k1, x1, k2, x2) == [j \in {k1, k2} |-> IF j = k1 THEN x1 ELSE x2]
Key3(k1, x1, k2, x2, k3, x3) ==
    [j \in {k1, k2, k3} |-> IF j = k1 THEN x1 ELSE IF j = k2 THEN x2 ELSE x3]

\* documents that carry the fields the bridge uses to mark an identifier
TaggedDocs ==
    { Key1("__type", BString("ObjectId")),
      Key2("__type", BString("ObjectId"), "__value", BBinary(Oid1)),
      Key3("__type", BString("ObjectId"), "__value", BBinary(Oid1), "id", BObjectId(Oid2)),
      Key2("__type", BString("ObjectId"), "id", BObjectId(Oid2)),
      Key2("__type", BInt32(7), "id", BObjectId(Oid2)) }

SubDocs ==
    { <<>> } \cup { Key1("id", x) : x \in Scalars }
    \cup { Key2("id", BObjectId(Oid1), "n", BInt32(7)),
           Key1("in", BDocument(Key1("id", BObjectId(Oid2)))),
           Key1("list", BArray(<<BObjectId(Oid2)>>)) }
    \cup TaggedDocs

Values == Scalars \cup Arrays \cup { BDocument(d) : d \in SubDocs }

TopKeys == {"a", "b"}

Documents ==
    UNION { [ks -> Values] : ks \in SUBSET TopKeys } \cup TaggedDocs

BridgeStart ==
    /\ inDoc \in Documents
    /\ luaDoc = LNil
    /\ script = "-"
    /\ outDoc = <<>>
    /\ brPc = "new"

BridgeIdle ==
    /\ inDoc = <<>>
    /\ luaDoc = LNil
    /\ script = "-"
    /\ outDoc = <<>>
    /\ brPc = "new"

\* lctx.load_document(doc)?
LoadDocument ==
    /\ brPc = "new"
    /\ luaDoc' = load_document(inDoc)
    /\ brPc' = "loaded"
    /\ UNCHANGED <<inDoc, script, outDoc, notBridge>>

\* lctx.load_script(""): the script that does nothing
RunEmptyScript ==
    /\ brPc = "loaded"
    /\ script' = ""
    /\ brPc' = "ran"
    /\ UNCHANGED <<inDoc, luaDoc, outDoc, notBridge>>

\* lctx.load_script("doc.a = doc.a"): a field read and stored back
RunRestoreScript ==
    /\ brPc = "loaded"
    /\ script' = "doc.a = doc.a"
    /\ luaDoc' = TableSet(luaDoc, "a", TableGet(luaDoc, "a"))
    /\ brPc' = "ran"
    /\ UNCHANGED <<inDoc, outDoc, notBridge>>

\* lctx.load_script("doc.a = newObjectId()"): ObjectId::new() is some fresh
\* identifier
RunNewObjectIdScript ==
    /\ brPc = "loaded"
    /\ script' = "doc.a = newObjectId()"
    /\ \E oid \in {Oid2, Oid3} :
          luaDoc' = TableSet(luaDoc, "a", LuaObjectIdRepr_to_lua(oid))
    /\ brPc' = "ran"
    /\ UNCHANGED <<inDoc, outDoc, notBridge>>

\* lctx.load_script("doc = nil")
RunDropScript ==
    /\ brPc = "loaded"
    /\ script' = "doc = nil"
    /\ luaDoc' = LNil
    /\ brPc' = "ran"
    /\ UNCHANGED <<inDoc, outDoc, notBridge>>

\* lctx.load_script("error('stop')")?: the script fails, `?` returns the error
RunFailingScript ==
    /\ brPc = "loaded"
    /\ script' = "error('stop')"
    /\ brPc' = "script_err"
    /\ UNCHANGED <<inDoc, luaDoc, outDoc, notBridge>>

\* lctx.get_document()? returns the Document
GetDocument ==
    /\ brPc = "ran"
    /\ LuaBsonRepr_from_lua(luaDoc).ok
    /\ LuaBsonRepr_from_lua(luaDoc).val.t = "Document"
    /\ outDoc' = LuaBsonRepr_from_lua(luaDoc).val.v
    /\ brPc' = "harvested"
    /\ UNCHANGED <<inDoc, luaDoc, script, notBridge>>

\* globals.get::<_, LuaBsonRepr>("doc")? fails
GetDocumentError ==
    /\ brPc = "ran"
    /\ ~LuaBsonRepr_from_lua(luaDoc).ok
    /\ brPc' = "harvest_err"
    /\ UNCHANGED <<inDoc, luaDoc, script, outDoc, notBridge>>

\* doc.0.as_document().unwrap() on a value that is no Document
GetDocumentPanic ==
    /\ brPc = "ran"
    /\ LuaBsonRepr_from_lua(luaDoc).ok
    /\ LuaBsonRepr_from_lua(luaDoc).val.t /= "Document"
    /\ brPc' = "panic"
    /\ UNCHANGED <<inDoc, luaDoc, script, outDoc, notBridge>>

(***************************************************************************)
(* Properties of LuaEngine                                                 *)
(***************************************************************************)

\* the variants the round trip is promised for, containers of them included
RECURSIVE Covered(_)
Covered(b) ==
    CASE b.t \in {"String", "Boolean", "Int32", "Int64", "Double", "ObjectId"} -> TRUE
      [] b.t = "Document" -> \A k \in DOMAIN b.v : Covered(b.v[k])
      [] b.t = "Array" -> \A i \in 1..Len(b.v) : Covered(b.v[i])
      [] OTHER -> FALSE

BridgeReturned == brPc \in {"harvested", "harvest_err", "panic"}

\* C7: after the empty script, get_document returns a document, and every
\* field of the input whose value is of a covered variant is in it with the
\* same variant and the same value.
C7_EmptyScriptReturnsInput ==
    (script = "" /\ BridgeReturned) =>
        \A k \in DOMAIN inDoc :
            Covered(inDoc[k]) =>
                /\ brPc = "harvested"
                /\ k \in DOMAIN outDoc
                /\ outDoc[k] = inDoc[k]

SameObjectId(got, want) ==
    /\ got.t = "ObjectId"
    /\ Len(got.v) = 12
    /\ \A i \in 1..12 : got.v[i] = want.v[i]

LeavesIdentifiers == script \in {"", "doc.a = doc.a"}

\* C8: after a script that leaves the identifiers alone, get_document returns
\* a document in which every identifier of the input, at the top level or in
\* a sub-document, is an ObjectId with the same 12 bytes in the same order.
C8_ObjectIdComesBackByteForByte ==
    (LeavesIdentifiers /\ BridgeReturned) =>
        \A k \in DOMAIN inDoc :
            /\ inDoc[k].t = "ObjectId" =>
                  /\ brPc = "harvested"
                  /\ k \in DOMAIN outDoc
                  /\ SameObjectId(outDoc[k], inDoc[k])
            /\ inDoc[k].t = "Document" =>
                  \A j \in DOMAIN inDoc[k].v :
                      inDoc[k].v[j].t = "ObjectId" =>
                          /\ brPc = "harvested"
                          /\ k \in DOMAIN outDoc
                          /\ outDoc[k].t = "Document"
                          /\ j \in DOMAIN outDoc[k].v
                          /\ SameObjectId(outDoc[k].v[j], inDoc[k].v[j])

\* a document that to_lua turns into a table from_lua takes for an identifier
ReadsAsTag(d) == IsTaggedObjectId(LuaBsonRepr_to_lua(BDocument(d)))

\* no document in b, at any depth, reads as the identifier tag
RECURSIVE TagFree(_)
TagFree(b) ==
    CASE b.t = "Document" -> ~ReadsAsTag(b.v) /\ \A k \in DOMAIN b.v : TagFree(b.v[k])
      [] b.t = "Array" -> \A i \in 1..Len(b.v) : TagFree(b.v[i])
      [] OTHER -> TRUE

\* What does hold of the identifiers (not one of the claims): when no
\* document of the input reads as the identifier tag, get_document returns
\* every identifier of the top level and of the sub-documents byte for byte.
ObjectIdRoundTripsInTagFreeDocuments ==
    (LeavesIdentifiers /\ BridgeReturned /\ TagFree(BDocument(inDoc))) =>
        \A k \in DOMAIN inDoc :
            /\ inDoc[k].t = "ObjectId" =>
                  /\ brPc = "harvested"
                  /\ k \in DOMAIN outDoc
                  /\ SameObjectId(outDoc[k], inDoc[k])
            /\ inDoc[k].t = "Document" =>
                  \A j \in DOMAIN inDoc[k].v :
                      inDoc[k].v[j].t = "ObjectId" =>
                          /\ brPc = "harvested"
                          /\ k \in DOMAIN outDoc
                          /\ outDoc[k].t = "Document"
                          /\ j \in DOMAIN outDoc[k].v
                          /\ SameObjectId(outDoc[k].v[j], inDoc[k].v[j])

(***************************************************************************)
(* The export loops of main: idx.par_iter().chunks(args.batch).for_each    *)
(* on a pool of args.threads threads                                       *)
(***************************************************************************)

\* The largest index exported, the largest --batch and the largest --threads
MaxRecords == 4
MaxBatch == 3
MaxThreads == 2

\* Document k is the document of the k-th record of idx.
\* chunks(batch): the number of chunks, and the records of chunk c
NumChunks(n, batch) == (n + batch - 1) \div batch

ChunkFirst(c, batch) == (c - 1) * batch + 1

ChunkSize(c, n, batch) == Min(c * batch, n) - (c - 1) * batch

\* format!("{}-{}", chunk_ct.read(), nth), and save_single_doc's
\* out_dir.join(format!("{}.json", idx))
FileName(ct, nth) == ToString(ct) \o "-" \o ToString(nth) \o ".json"

\* save_single_doc: create the file or truncate it, and write the document
save_single_doc(dir, name, doc) ==
    { f \in dir : f[1] /= name } \cup { <<name, doc>> }

\* pb.inc(args.batch as u64)
ProgressStep(batch, docs) == batch

Idle == [st |-> "idle", chunk |-> 0, nth |-> 0]

ExportStart ==
    /\ exArgs \in [n : 0..MaxRecords, batch : 1..MaxBatch,
                   threads : 1..MaxThreads, single : BOOLEAN,
                   bad : SUBSET (1..MaxRecords)]
    /\ exArgs.bad \subseteq 1..exArgs.n
    /\ chunk_ct = 0
    /\ pb = 0
    /\ taken = {}
    /\ worker = [w \in 1..exArgs.threads |-> Idle]
    /\ files = {}
    /\ writer = <<>>
    /\ exported = 0
    /\ exPc = "running"

ExportIdle ==
    /\ exArgs = [n |-> 0, batch |-> 1, threads |-> 1, single |-> FALSE, bad |-> {}]
    /\ chunk_ct = 0
    /\ pb = 0
    /\ taken = {}
    /\ worker = [w \in 1..1 |-> Idle]
    /\ files = {}
    /\ writer = <<>>
    /\ exported = 0
    /\ exPc = "done"

Chunks == 1..NumChunks(exArgs.n, exArgs.batch)

\* chunks(batch): the chunk that record k is in
ChunkOf(k, batch) == ((k - 1) \div batch) + 1

\* load_docs / apply_script: the first failing record of the chunk returns
\* Err through `?`, and with it the documents already loaded are dropped
LoadFails(c) == \E k \in exArgs.bad : ChunkOf(k, exArgs.batch) = c

\* The pool is at work: no panic so far, or a closure has panicked and the
\* pool lets the work it still holds run before the panic is passed on
Running == exPc \in {"running", "unwinding"}

\* A thread of the pool starts on a chunk and loads its documents (load_docs
\* or apply_script).  One thread works through the chunks in order; with
\* more threads the chunks are split among them and stolen, so that any
\* chunk not yet started may be the next to start.
TakeChunk ==
    /\ Running
    /\ \E w \in DOMAIN worker, c \in Chunks \ taken :
          /\ worker[w].st = "idle"
          /\ ~LoadFails(c)
          /\ exArgs.threads = 1 => \A d \in Chunks \ taken : c <= d
          /\ taken' = taken \cup {c}
          /\ worker' = [worker EXCEPT ![w] = [st |-> "loaded", chunk |-> c, nth |-> 0]]
    /\ UNCHANGED <<exArgs, chunk_ct, pb, files, writer, exported, exPc, notExport>>

\* lines 156-160 / 183-187: a record of the chunk fails in load_docs or
\* apply_script, the Err is unwrapped and the closure panics before any
\* document of the chunk is written
ChunkFails ==
    /\ Running
    /\ \E w \in DOMAIN worker, c \in Chunks \ taken :
          /\ worker[w].st = "idle"
          /\ LoadFails(c)
          /\ exArgs.threads = 1 => \A d \in Chunks \ taken : c <= d
          /\ taken' = taken \cup {c}
    /\ exPc' = "unwinding"
    /\ UNCHANGED <<exArgs, chunk_ct, pb, worker, files, writer, exported, notExport>>

\* lines 189-197, one turn: the file name is made from the counter as it is
\* now and the document's place in the chunk
SaveDoc ==
    /\ Running
    /\ ~exArgs.single
    /\ \E w \in DOMAIN worker :
          /\ worker[w].st = "loaded"
          /\ worker[w].nth < ChunkSize(worker[w].chunk, exArgs.n, exArgs.batch)
          /\ files' = save_single_doc(files, FileName(chunk_ct, worker[w].nth),
                          ChunkFirst(worker[w].chunk, exArgs.batch) + worker[w].nth)
          /\ worker' = [worker EXCEPT ![w].nth = @ + 1]
    /\ exported' = exported + 1
    /\ UNCHANGED <<exArgs, chunk_ct, pb, taken, writer, exPc, notExport>>

\* lines 199-200, after the chunk's last file: pb.inc and the counter
FinishChunk ==
    /\ Running
    /\ ~exArgs.single
    /\ \E w \in DOMAIN worker :
          /\ worker[w].st = "loaded"
          /\ worker[w].nth = ChunkSize(worker[w].chunk, exArgs.n, exArgs.batch)
          /\ pb' = pb + ProgressStep(exArgs.batch, worker[w].nth)
          /\ worker' = [worker EXCEPT ![w] = Idle]
    /\ chunk_ct' = chunk_ct + 1
    /\ UNCHANGED <<exArgs, taken, files, writer, exported, exPc, notExport>>

\* lines 161-167: with the writer's lock held, the chunk's documents are
\* serialized in their order, then pb.inc and the counter
WriteChunk ==
    /\ Running
    /\ exArgs.single
    /\ \E w \in DOMAIN worker :
          LET size == ChunkSize(worker[w].chunk, exArgs.n, exArgs.batch)
              first == ChunkFirst(worker[w].chunk, exArgs.batch)
          IN  /\ worker[w].st = "loaded"
              /\ writer' = writer \o [i \in 1..size |-> first + i - 1]
              /\ exported' = exported + size
              /\ pb' = pb + ProgressStep(exArgs.batch, size)
              /\ worker' = [worker EXCEPT ![w] = Idle]
    /\ chunk_ct' = chunk_ct + 1
    /\ UNCHANGED <<exArgs, taken, files, exPc, notExport>>

\* for_each has returned: every chunk is done.  pb.finish_with_message sets
\* the position to the bar's length, idx.len()
FinishExport ==
    /\ exPc = "running"
    /\ taken = Chunks
    /\ \A w \in DOMAIN worker : worker[w].st = "idle"
    /\ pb' = exArgs.n
    /\ exPc' = "done"
    /\ UNCHANGED <<exArgs, chunk_ct, taken, worker, files, writer, exported, notExport>>

\* The panic of a closure leaves thread_pool.install once the chunks in work
\* are finished; the chunks not yet started may or may not have run by then.
\* main panics: neither l.end() nor pb.finish_with_message is reached.
ExportPanic ==
    /\ exPc = "unwinding"
    /\ \A w \in DOMAIN worker : worker[w].st = "idle"
    /\ exPc' = "panic"
    /\ UNCHANGED <<exArgs, chunk_ct, pb, taken, worker, files, writer, exported, notExport>>

(***************************************************************************)
(* Properties of the export loops                                          *)
(***************************************************************************)

\* C1: a per-file export leaves exactly N files, one for each record.
C1_OneFilePerRecord ==
    (exPc = "done" /\ ~exArgs.single) =>
        /\ Cardinality(files) = exArgs.n
        /\ \A k \in 1..exArgs.n : \E f \in files : f[2] = k

\* C2: the array of a --single export has the N documents in record order.
C2_SingleOutputInRecordOrder ==
    (exPc = "done" /\ exArgs.single) =>
        /\ Len(writer) = exArgs.n
        /\ \A k \in 1..Len(writer) : writer[k] = k

\* C10: whenever no chunk is in progress, the progress position is the
\* number of documents exported so far (so it is N at the end, and no step
\* takes it back).
C10_ProgressCountsDocuments ==
    (\A w \in DOMAIN worker : worker[w].st = "idle") => pb = exported

\* record k is in the output: an element of the array, or in a file
IsExported(k) ==
    IF exArgs.single THEN \E i \in 1..Len(writer) : writer[i] = k
    ELSE \E f \in files : f[2] = k

\* C11: when the run has ended, every record that did not fail itself but
\* shares its chunk with a record that failed has been exported all the same.
C11_FailureStopsOneRecordOnly ==
    exPc \in {"done", "panic"} =>
        \A k \in (1..exArgs.n) \ exArgs.bad :
            LoadFails(ChunkOf(k, exArgs.batch)) => IsExported(k)

(***************************************************************************)
(* The specifications                                                      *)
(***************************************************************************)

ScanNext == ScanEof \/ ScanRecord \/ ScanSeekError \/ ScanOverflowPanic

ScanInit == ScanStart /\ IndexIdle /\ SliceIdle /\ BridgeIdle /\ ExportIdle

SpecScan == ScanInit /\ [][ScanNext]_vars

IndexNext == SaveIndex \/ LoadIndex

IndexInit == IndexStart /\ ScanIdle /\ SliceIdle /\ BridgeIdle /\ ExportIdle

SpecIndex == IndexInit /\ [][IndexNext]_vars
SliceNext == NoSlice \/ ParseSlice \/ ApplySlice \/ SlicePanic

SliceInit == SliceStart /\ ScanIdle /\ IndexIdle /\ BridgeIdle /\ ExportIdle

SpecSlice == SliceInit /\ [][SliceNext]_vars
BridgeNext ==
    \/ LoadDocument
    \/ RunEmptyScript
    \/ RunRestoreScript
    \/ RunNewObjectIdScript
    \/ RunDropScript
    \/ RunFailingScript
    \/ GetDocument
    \/ GetDocumentError
    \/ GetDocumentPanic

BridgeInit == BridgeStart /\ ScanIdle /\ IndexIdle /\ SliceIdle /\ ExportIdle

SpecBridge == BridgeInit /\ [][BridgeNext]_vars
ExportNext ==
    \/ TakeChunk
    \/ ChunkFails
    \/ SaveDoc
    \/ FinishChunk
    \/ WriteChunk
    \/ FinishExport
    \/ ExportPanic

ExportInit == ExportStart /\ ScanIdle /\ IndexIdle /\ SliceIdle /\ BridgeIdle

SpecExport == ExportInit /\ [][ExportNext]_vars

====
